---- MODULE Spec2Model ----
(***************************************************************************)
(* A model of the price-metrics report of staking-rewards-Babylon:         *)
(* src/price.py (clean_numeric_columns, format_value, calculations,        *)
(* display_metrics_as_formated_list, display_metrics_as_list,              *)
(* get_assets_data).                                                       *)
(*                                                                         *)
(* Numbers are binary floating-point values, rounded to nearest-even after *)
(* every operation as Python's float and numpy.float64 are.  A value is    *)
(* s * m * 2^e with a significand m of Precision bits; binary64 keeps 53   *)
(* bits, the model keeps Precision bits so that the arithmetic stays       *)
(* within the model checker's integers (an integer literal such as         *)
(* 1_000_000 is therefore rounded to Precision bits as well).  Exponent    *)
(* range (overflow to inf, subnormals) is not modelled.  A value also      *)
(* carries whether it is a numpy scalar (what DataFrame[...].values[0]     *)
(* yields) or a Python float: numpy division by zero yields inf/nan,       *)
(* Python division by zero raises ZeroDivisionError.                       *)
(*                                                                         *)
(* A value computed once and used several times is passed on as an         *)
(* operator argument, the way the code binds it to a local variable.       *)
(***************************************************************************)
EXTENDS Integers, Sequences, FiniteSets, TLC

\* Bits of significand the model's floats keep.
Precision == 9
\* Most rows of a table.
MaxRows == 2

(***************************************************************************)
(* Floating point                                                          *)
(***************************************************************************)
RECURSIVE Pow2(_)
Pow2(n) == IF n <= 0 THEN 1 ELSE 2 * Pow2(n - 1)

RECURSIVE Pow10(_)
Pow10(n) == IF n <= 0 THEN 1 ELSE 10 * Pow10(n - 1)

RECURSIVE BitLen(_)
BitLen(n) == IF n <= 0 THEN 0 ELSE 1 + BitLen(n \div 2)

Abs(i) == IF i < 0 THEN -i ELSE i

Sign(i) == IF i < 0 THEN -1 ELSE 1

Fin(np, s, m, e) == [np |-> np, k |-> "fin", s |-> s, m |-> m, e |-> e]

Inf(np, s) == [np |-> np, k |-> "inf", s |-> s, m |-> 0, e |-> 0]

NaN(np) == [np |-> np, k |-> "nan", s |-> 1, m |-> 0, e |-> 0]

IsZero(a) == a.k = "fin" /\ a.m = 0

\* s * m * 2^e with m of at most Precision + 1 bits, renormalised.
Normal(np, s, m, e) ==
    IF m = Pow2(Precision) THEN Fin(np, s, Pow2(Precision - 1), e + 1)
    ELSE Fin(np, s, m, e)

\* s * (q + (r + d) / 2^bits) * 2^e rounded to the integer multiple of 2^e
\* nearest to it, ties to even; 0 <= d < 1, and d > 0 exactly when sticky.
RoundQuotient(np, s, e, bits, q, r, sticky) ==
    IF \/ r > Pow2(bits - 1)
       \/ (r = Pow2(bits - 1) /\ (sticky \/ q % 2 = 1))
    THEN Normal(np, s, q + 1, e)
    ELSE Normal(np, s, q, e)

\* RoundNE for an n of L bits.
RoundBits(np, s, n, e, sticky, L) ==
    IF L <= Precision
    THEN Fin(np, s, n * Pow2(Precision - L), e - (Precision - L))
    ELSE RoundQuotient(np, s, e + (L - Precision), L - Precision,
                       n \div Pow2(L - Precision), n % Pow2(L - Precision), sticky)

\* The float nearest to s * (n + d) * 2^e, ties to even, where 0 <= d < 1 and
\* d > 0 exactly when sticky.  A caller that sets sticky passes n with at
\* least Precision + 2 bits.
RoundNE(np, s, n, e, sticky) ==
    IF n = 0 THEN Fin(np, s, 0, 0) ELSE RoundBits(np, s, n, e, sticky, BitLen(n))

\* The float nearest to n / (d * 2^k), n > 0.
FromScaled(np, s, n, d, k) ==
    RoundNE(np, s, (n * Pow2(k)) \div d, -k, (n * Pow2(k)) % d # 0)

\* The float nearest to the rational n / d (d > 0): a literal such as 166.3,
\* float("1.5"), or the true division of two Python ints.
FromRatio(np, n, d) ==
    IF n = 0 THEN Fin(np, 1, 0, 0)
    ELSE IF Precision + 2 + BitLen(d) - BitLen(Abs(n)) > 0
    THEN FromScaled(np, Sign(n), Abs(n), d, Precision + 2 + BitLen(d) - BitLen(Abs(n)))
    ELSE FromScaled(np, Sign(n), Abs(n), d, 0)

FromInt(np, n) == FromRatio(np, n, 1)

\* float(x): a Python float of the same value.
ToPyFloat(a) == [a EXCEPT !.np = FALSE]

Neg(a) == IF a.k = "nan" THEN a ELSE [a EXCEPT !.s = -a.s]

\* abs(a)
FAbs(a) == IF a.k = "nan" THEN a ELSE [a EXCEPT !.s = 1]

\* a * b
FMul(a, b) ==
    IF a.k = "nan" \/ b.k = "nan" THEN NaN(a.np \/ b.np)
    ELSE IF a.k = "inf" \/ b.k = "inf"
    THEN IF IsZero(a) \/ IsZero(b) THEN NaN(a.np \/ b.np)
         ELSE Inf(a.np \/ b.np, a.s * b.s)
    ELSE RoundNE(a.np \/ b.np, a.s * b.s, a.m * b.m, a.e + b.e, FALSE)

\* The float nearest to the integer N times 2^e.
FromSigned(np, N, e) ==
    IF N = 0 THEN Fin(np, 1, 0, 0) ELSE RoundNE(np, Sign(N), Abs(N), e, FALSE)

\* a + b for finite a, b with a.e >= b.e and neither zero.  When b lies
\* below a quarter of a's last place it only decides the rounding.
AddOrdered(np, a, b) ==
    IF a.e - b.e <= Precision + 1
    THEN FromSigned(np, a.s * a.m * Pow2(a.e - b.e) + b.s * b.m, b.e)
    ELSE IF a.s = b.s
    THEN RoundNE(np, a.s, 4 * a.m, a.e - 2, TRUE)
    ELSE RoundNE(np, a.s, 4 * a.m - 1, a.e - 2, TRUE)

\* a + b
FAdd(a, b) ==
    IF a.k = "nan" \/ b.k = "nan" THEN NaN(a.np \/ b.np)
    ELSE IF a.k = "inf" /\ b.k = "inf"
    THEN IF a.s = b.s THEN Inf(a.np \/ b.np, a.s) ELSE NaN(a.np \/ b.np)
    ELSE IF a.k = "inf" THEN Inf(a.np \/ b.np, a.s)
    ELSE IF b.k = "inf" THEN Inf(a.np \/ b.np, b.s)
    ELSE IF IsZero(a) /\ IsZero(b)
    THEN Fin(a.np \/ b.np, IF a.s = b.s THEN a.s ELSE 1, 0, 0)
    ELSE IF IsZero(a) THEN [b EXCEPT !.np = a.np \/ b.np]
    ELSE IF IsZero(b) THEN [a EXCEPT !.np = a.np \/ b.np]
    ELSE IF a.e >= b.e THEN AddOrdered(a.np \/ b.np, a, b)
    ELSE AddOrdered(a.np \/ b.np, b, a)

\* a - b
FSub(a, b) == FAdd(a, Neg(b))

\* a / b under IEEE 754 rules, as numpy divides: x/0 is inf, 0/0 is nan.
IEEEDiv(a, b) ==
    IF a.k = "nan" \/ b.k = "nan" THEN NaN(a.np \/ b.np)
    ELSE IF a.k = "inf"
    THEN IF b.k = "inf" THEN NaN(a.np \/ b.np) ELSE Inf(a.np \/ b.np, a.s * b.s)
    ELSE IF b.k = "inf" THEN Fin(a.np \/ b.np, a.s * b.s, 0, 0)
    ELSE IF IsZero(b)
    THEN IF IsZero(a) THEN NaN(a.np \/ b.np) ELSE Inf(a.np \/ b.np, a.s * b.s)
    ELSE IF IsZero(a) THEN Fin(a.np \/ b.np, a.s * b.s, 0, 0)
    ELSE RoundNE(a.np \/ b.np, a.s * b.s,
                 (a.m * Pow2(Precision + 2)) \div b.m,
                 a.e - b.e - (Precision + 2),
                 (a.m * Pow2(Precision + 2)) % b.m # 0)

\* Whether a / b raises ZeroDivisionError: Python's float division does, on
\* a zero divisor; a division with a numpy operand does not.
DivRaises(a, b) == ~a.np /\ ~b.np /\ IsZero(b)

RECURSIVE ISqrtIn(_, _, _)
ISqrtIn(N, lo, hi) ==
    IF lo >= hi THEN lo
    ELSE IF ((lo + hi + 1) \div 2) * ((lo + hi + 1) \div 2) <= N
    THEN ISqrtIn(N, (lo + hi + 1) \div 2, hi)
    ELSE ISqrtIn(N, lo, ((lo + hi + 1) \div 2) - 1)

\* The integer part of the square root of N.
ISqrt(N) == ISqrtIn(N, 0, Pow2((BitLen(N) + 1) \div 2))

\* The float nearest to sqrt(N * 2^e), e even, N of at least 2 * Precision + 3
\* bits, r its integer square root.
SqrtRound(N, e, r) == RoundNE(FALSE, 1, r, e \div 2, r * r # N)

\* sqrt(m * 2^e) with the significand scaled by 2^k.
SqrtScaled(m, e, k) == SqrtRound(m * Pow2(k), e - k, ISqrt(m * Pow2(k)))

\* math.sqrt of an a it accepts (a >= 0, inf or nan): a Python float,
\* correctly rounded.
FSqrt(a) ==
    IF a.k # "fin" THEN ToPyFloat(a)
    ELSE IF IsZero(a) THEN Fin(FALSE, a.s, 0, 0)
    ELSE IF (a.e - (Precision + 3)) % 2 = 0
    THEN SqrtScaled(a.m, a.e, Precision + 3)
    ELSE SqrtScaled(a.m, a.e, Precision + 4)

\* Python's ==: by value, whatever the scalar type; nan equals nothing.
NumEq(a, b) ==
    /\ a.k # "nan" /\ b.k # "nan"
    /\ a.k = b.k
    /\ IF a.k = "inf" THEN a.s = b.s
       ELSE \/ a.m = 0 /\ b.m = 0
            \/ a.s = b.s /\ a.m = b.m /\ a.e = b.e

\* |x - ref| <= n units in the last place of ref (n small), x and ref finite.
WithinUlps(x, ref, n) ==
    /\ x.k = "fin" /\ ref.k = "fin"
    /\ IF ref.m = 0 THEN x.m = 0
       ELSE IF x.m = 0 THEN ref.m <= n
       ELSE IF x.e >= ref.e
            THEN /\ x.e - ref.e <= 3
                 /\ Abs(x.s * x.m * Pow2(x.e - ref.e) - ref.s * ref.m) <= n
            ELSE /\ ref.e - x.e <= Precision + 3
                 /\ Abs(x.s * x.m - ref.s * ref.m * Pow2(ref.e - x.e))
                       <= n * Pow2(ref.e - x.e)

(***************************************************************************)
(* Strings.  A column or metric name is looked up by its characters.       *)
(***************************************************************************)
Chars ==
    ("scrip_dividend" :> <<"s", "c", "r", "i", "p", "_", "d", "i", "v", "i", "d", "e", "n", "d">>)
    @@ ("Scrip_Dividend" :> <<"S", "c", "r", "i", "p", "_", "D", "i", "v", "i", "d", "e", "n", "d">>)
    @@ ("SCRIP_DIVIDEND" :> <<"S", "C", "R", "I", "P", "_", "D", "I", "V", "I", "D", "E", "N", "D">>)
    @@ ("scrip dividend" :> <<"s", "c", "r", "i", "p", " ", "d", "i", "v", "i", "d", "e", "n", "d">>)
    @@ ("Scrip Dividend" :> <<"S", "c", "r", "i", "p", " ", "D", "i", "v", "i", "d", "e", "n", "d">>)
    @@ ("SCRIP DIVIDEND" :> <<"S", "C", "R", "I", "P", " ", "D", "I", "V", "I", "D", "E", "N", "D">>)
    @@ ("price" :> <<"p", "r", "i", "c", "e">>)
    @@ ("Price" :> <<"P", "r", "i", "c", "e">>)
    @@ ("PRICE" :> <<"P", "R", "I", "C", "E">>)
    @@ ("earnings_per_share" :> <<"e", "a", "r", "n", "i", "n", "g", "s", "_", "p", "e", "r", "_", "s", "h", "a", "r", "e">>)
    @@ ("Earnings_Per_Share" :> <<"E", "a", "r", "n", "i", "n", "g", "s", "_", "P", "e", "r", "_", "S", "h", "a", "r", "e">>)
    @@ ("EARNINGS_PER_SHARE" :> <<"E", "A", "R", "N", "I", "N", "G", "S", "_", "P", "E", "R", "_", "S", "H", "A", "R", "E">>)
    @@ ("earnings per share" :> <<"e", "a", "r", "n", "i", "n", "g", "s", " ", "p", "e", "r", " ", "s", "h", "a", "r", "e">>)
    @@ ("Earnings Per Share" :> <<"E", "a", "r", "n", "i", "n", "g", "s", " ", "P", "e", "r", " ", "S", "h", "a", "r", "e">>)
    @@ ("EARNINGS PER SHARE" :> <<"E", "A", "R", "N", "I", "N", "G", "S", " ", "P", "E", "R", " ", "S", "H", "A", "R", "E">>)
    @@ ("price_to_earnings" :> <<"p", "r", "i", "c", "e", "_", "t", "o", "_", "e", "a", "r", "n", "i", "n", "g", "s">>)
    @@ ("Price_To_Earnings" :> <<"P", "r", "i", "c", "e", "_", "T", "o", "_", "E", "a", "r", "n", "i", "n", "g", "s">>)
    @@ ("PRICE_TO_EARNINGS" :> <<"P", "R", "I", "C", "E", "_", "T", "O", "_", "E", "A", "R", "N", "I", "N", "G", "S">>)
    @@ ("price to earnings" :> <<"p", "r", "i", "c", "e", " ", "t", "o", " ", "e", "a", "r", "n", "i", "n", "g", "s">>)
    @@ ("Price To Earnings" :> <<"P", "r", "i", "c", "e", " ", "T", "o", " ", "E", "a", "r", "n", "i", "n", "g", "s">>)
    @@ ("PRICE TO EARNINGS" :> <<"P", "R", "I", "C", "E", " ", "T", "O", " ", "E", "A", "R", "N", "I", "N", "G", "S">>)
    @@ ("scrip_dividend_yield" :> <<"s", "c", "r", "i", "p", "_", "d", "i", "v", "i", "d", "e", "n", "d", "_", "y", "i", "e", "l", "d">>)
    @@ ("Scrip_Dividend_Yield" :> <<"S", "c", "r", "i", "p", "_", "D", "i", "v", "i", "d", "e", "n", "d", "_", "Y", "i", "e", "l", "d">>)
    @@ ("SCRIP_DIVIDEND_YIELD" :> <<"S", "C", "R", "I", "P", "_", "D", "I", "V", "I", "D", "E", "N", "D", "_", "Y", "I", "E", "L", "D">>)
    @@ ("scrip dividend yield" :> <<"s", "c", "r", "i", "p", " ", "d", "i", "v", "i", "d", "e", "n", "d", " ", "y", "i", "e", "l", "d">>)
    @@ ("Scrip Dividend Yield" :> <<"S", "c", "r", "i", "p", " ", "D", "i", "v", "i", "d", "e", "n", "d", " ", "Y", "i", "e", "l", "d">>)
    @@ ("SCRIP DIVIDEND YIELD" :> <<"S", "C", "R", "I", "P", " ", "D", "I", "V", "I", "D", "E", "N", "D", " ", "Y", "I", "E", "L", "D">>)
    @@ ("reward_rate" :> <<"r", "e", "w", "a", "r", "d", "_", "r", "a", "t", "e">>)
    @@ ("Reward_Rate" :> <<"R", "e", "w", "a", "r", "d", "_", "R", "a", "t", "e">>)
    @@ ("REWARD_RATE" :> <<"R", "E", "W", "A", "R", "D", "_", "R", "A", "T", "E">>)
    @@ ("reward rate" :> <<"r", "e", "w", "a", "r", "d", " ", "r", "a", "t", "e">>)
    @@ ("Reward Rate" :> <<"R", "e", "w", "a", "r", "d", " ", "R", "a", "t", "e">>)
    @@ ("REWARD RATE" :> <<"R", "E", "W", "A", "R", "D", " ", "R", "A", "T", "E">>)
    @@ ("cash_dividend_yield" :> <<"c", "a", "s", "h", "_", "d", "i", "v", "i", "d", "e", "n", "d", "_", "y", "i", "e", "l", "d">>)
    @@ ("Cash_Dividend_Yield" :> <<"C", "a", "s", "h", "_", "D", "i", "v", "i", "d", "e", "n", "d", "_", "Y", "i", "e", "l", "d">>)
    @@ ("CASH_DIVIDEND_YIELD" :> <<"C", "A", "S", "H", "_", "D", "I", "V", "I", "D", "E", "N", "D", "_", "Y", "I", "E", "L", "D">>)
    @@ ("cash dividend yield" :> <<"c", "a", "s", "h", " ", "d", "i", "v", "i", "d", "e", "n", "d", " ", "y", "i", "e", "l", "d">>)
    @@ ("Cash Dividend Yield" :> <<"C", "a", "s", "h", " ", "D", "i", "v", "i", "d", "e", "n", "d", " ", "Y", "i", "e", "l", "d">>)
    @@ ("CASH DIVIDEND YIELD" :> <<"C", "A", "S", "H", " ", "D", "I", "V", "I", "D", "E", "N", "D", " ", "Y", "I", "E", "L", "D">>)
    @@ ("buyback_yield" :> <<"b", "u", "y", "b", "a", "c", "k", "_", "y", "i", "e", "l", "d">>)
    @@ ("Buyback_Yield" :> <<"B", "u", "y", "b", "a", "c", "k", "_", "Y", "i", "e", "l", "d">>)
    @@ ("BUYBACK_YIELD" :> <<"B", "U", "Y", "B", "A", "C", "K", "_", "Y", "I", "E", "L", "D">>)
    @@ ("buyback yield" :> <<"b", "u", "y", "b", "a", "c", "k", " ", "y", "i", "e", "l", "d">>)
    @@ ("Buyback Yield" :> <<"B", "u", "y", "b", "a", "c", "k", " ", "Y", "i", "e", "l", "d">>)
    @@ ("BUYBACK YIELD" :> <<"B", "U", "Y", "B", "A", "C", "K", " ", "Y", "I", "E", "L", "D">>)
    @@ ("preferential_shares_staker" :> <<"p", "r", "e", "f", "e", "r", "e", "n", "t", "i", "a", "l", "_", "s", "h", "a", "r", "e", "s", "_", "s", "t", "a", "k", "e", "r">>)
    @@ ("Preferential_Shares_Staker" :> <<"P", "r", "e", "f", "e", "r", "e", "n", "t", "i", "a", "l", "_", "S", "h", "a", "r", "e", "s", "_", "S", "t", "a", "k", "e", "r">>)
    @@ ("PREFERENTIAL_SHARES_STAKER" :> <<"P", "R", "E", "F", "E", "R", "E", "N", "T", "I", "A", "L", "_", "S", "H", "A", "R", "E", "S", "_", "S", "T", "A", "K", "E", "R">>)
    @@ ("preferential shares staker" :> <<"p", "r", "e", "f", "e", "r", "e", "n", "t", "i", "a", "l", " ", "s", "h", "a", "r", "e", "s", " ", "s", "t", "a", "k", "e", "r">>)
    @@ ("Preferential Shares Staker" :> <<"P", "r", "e", "f", "e", "r", "e", "n", "t", "i", "a", "l", " ", "S", "h", "a", "r", "e", "s", " ", "S", "t", "a", "k", "e", "r">>)
    @@ ("PREFERENTIAL SHARES STAKER" :> <<"P", "R", "E", "F", "E", "R", "E", "N", "T", "I", "A", "L", " ", "S", "H", "A", "R", "E", "S", " ", "S", "T", "A", "K", "E", "R">>)
    @@ ("ordinary_shares_staker" :> <<"o", "r", "d", "i", "n", "a", "r", "y", "_", "s", "h", "a", "r", "e", "s", "_", "s", "t", "a", "k", "e", "r">>)
    @@ ("Ordinary_Shares_Staker" :> <<"O", "r", "d", "i", "n", "a", "r", "y", "_", "S", "h", "a", "r", "e", "s", "_", "S", "t", "a", "k", "e", "r">>)
    @@ ("ORDINARY_SHARES_STAKER" :> <<"O", "R", "D", "I", "N", "A", "R", "Y", "_", "S", "H", "A", "R", "E", "S", "_", "S", "T", "A", "K", "E", "R">>)
    @@ ("ordinary shares staker" :> <<"o", "r", "d", "i", "n", "a", "r", "y", " ", "s", "h", "a", "r", "e", "s", " ", "s", "t", "a", "k", "e", "r">>)
    @@ ("Ordinary Shares Staker" :> <<"O", "r", "d", "i", "n", "a", "r", "y", " ", "S", "h", "a", "r", "e", "s", " ", "S", "t", "a", "k", "e", "r">>)
    @@ ("ORDINARY SHARES STAKER" :> <<"O", "R", "D", "I", "N", "A", "R", "Y", " ", "S", "H", "A", "R", "E", "S", " ", "S", "T", "A", "K", "E", "R">>)
    @@ ("participant_dilution" :> <<"p", "a", "r", "t", "i", "c", "i", "p", "a", "n", "t", "_", "d", "i", "l", "u", "t", "i", "o", "n">>)
    @@ ("Participant_Dilution" :> <<"P", "a", "r", "t", "i", "c", "i", "p", "a", "n", "t", "_", "D", "i", "l", "u", "t", "i", "o", "n">>)
    @@ ("PARTICIPANT_DILUTION" :> <<"P", "A", "R", "T", "I", "C", "I", "P", "A", "N", "T", "_", "D", "I", "L", "U", "T", "I", "O", "N">>)
    @@ ("participant dilution" :> <<"p", "a", "r", "t", "i", "c", "i", "p", "a", "n", "t", " ", "d", "i", "l", "u", "t", "i", "o", "n">>)
    @@ ("Participant Dilution" :> <<"P", "a", "r", "t", "i", "c", "i", "p", "a", "n", "t", " ", "D", "i", "l", "u", "t", "i", "o", "n">>)
    @@ ("PARTICIPANT DILUTION" :> <<"P", "A", "R", "T", "I", "C", "I", "P", "A", "N", "T", " ", "D", "I", "L", "U", "T", "I", "O", "N">>)
    @@ ("circulating_supply" :> <<"c", "i", "r", "c", "u", "l", "a", "t", "i", "n", "g", "_", "s", "u", "p", "p", "l", "y">>)
    @@ ("Circulating_Supply" :> <<"C", "i", "r", "c", "u", "l", "a", "t", "i", "n", "g", "_", "S", "u", "p", "p", "l", "y">>)
    @@ ("CIRCULATING_SUPPLY" :> <<"C", "I", "R", "C", "U", "L", "A", "T", "I", "N", "G", "_", "S", "U", "P", "P", "L", "Y">>)
    @@ ("circulating supply" :> <<"c", "i", "r", "c", "u", "l", "a", "t", "i", "n", "g", " ", "s", "u", "p", "p", "l", "y">>)
    @@ ("Circulating Supply" :> <<"C", "i", "r", "c", "u", "l", "a", "t", "i", "n", "g", " ", "S", "u", "p", "p", "l", "y">>)
    @@ ("CIRCULATING SUPPLY" :> <<"C", "I", "R", "C", "U", "L", "A", "T", "I", "N", "G", " ", "S", "U", "P", "P", "L", "Y">>)
    @@ ("buyback_nominal_amount" :> <<"b", "u", "y", "b", "a", "c", "k", "_", "n", "o", "m", "i", "n", "a", "l", "_", "a", "m", "o", "u", "n", "t">>)
    @@ ("Buyback_Nominal_Amount" :> <<"B", "u", "y", "b", "a", "c", "k", "_", "N", "o", "m", "i", "n", "a", "l", "_", "A", "m", "o", "u", "n", "t">>)
    @@ ("BUYBACK_NOMINAL_AMOUNT" :> <<"B", "U", "Y", "B", "A", "C", "K", "_", "N", "O", "M", "I", "N", "A", "L", "_", "A", "M", "O", "U", "N", "T">>)
    @@ ("buyback nominal amount" :> <<"b", "u", "y", "b", "a", "c", "k", " ", "n", "o", "m", "i", "n", "a", "l", " ", "a", "m", "o", "u", "n", "t">>)
    @@ ("Buyback Nominal Amount" :> <<"B", "u", "y", "b", "a", "c", "k", " ", "N", "o", "m", "i", "n", "a", "l", " ", "A", "m", "o", "u", "n", "t">>)
    @@ ("BUYBACK NOMINAL AMOUNT" :> <<"B", "U", "Y", "B", "A", "C", "K", " ", "N", "O", "M", "I", "N", "A", "L", " ", "A", "M", "O", "U", "N", "T">>)
    @@ ("cash_dividend" :> <<"c", "a", "s", "h", "_", "d", "i", "v", "i", "d", "e", "n", "d">>)
    @@ ("Cash_Dividend" :> <<"C", "a", "s", "h", "_", "D", "i", "v", "i", "d", "e", "n", "d">>)
    @@ ("CASH_DIVIDEND" :> <<"C", "A", "S", "H", "_", "D", "I", "V", "I", "D", "E", "N", "D">>)
    @@ ("cash dividend" :> <<"c", "a", "s", "h", " ", "d", "i", "v", "i", "d", "e", "n", "d">>)
    @@ ("Cash Dividend" :> <<"C", "a", "s", "h", " ", "D", "i", "v", "i", "d", "e", "n", "d">>)
    @@ ("CASH DIVIDEND" :> <<"C", "A", "S", "H", " ", "D", "I", "V", "I", "D", "E", "N", "D">>)
    @@ ("earnings" :> <<"e", "a", "r", "n", "i", "n", "g", "s">>)
    @@ ("Earnings" :> <<"E", "a", "r", "n", "i", "n", "g", "s">>)
    @@ ("EARNINGS" :> <<"E", "A", "R", "N", "I", "N", "G", "S">>)
    @@ ("ordinary_shares" :> <<"o", "r", "d", "i", "n", "a", "r", "y", "_", "s", "h", "a", "r", "e", "s">>)
    @@ ("Ordinary_Shares" :> <<"O", "r", "d", "i", "n", "a", "r", "y", "_", "S", "h", "a", "r", "e", "s">>)
    @@ ("ORDINARY_SHARES" :> <<"O", "R", "D", "I", "N", "A", "R", "Y", "_", "S", "H", "A", "R", "E", "S">>)
    @@ ("ordinary shares" :> <<"o", "r", "d", "i", "n", "a", "r", "y", " ", "s", "h", "a", "r", "e", "s">>)
    @@ ("Ordinary Shares" :> <<"O", "r", "d", "i", "n", "a", "r", "y", " ", "S", "h", "a", "r", "e", "s">>)
    @@ ("ORDINARY SHARES" :> <<"O", "R", "D", "I", "N", "A", "R", "Y", " ", "S", "H", "A", "R", "E", "S">>)
    @@ ("assets" :> <<"a", "s", "s", "e", "t", "s">>)
    @@ ("Asset" :> <<"A", "s", "s", "e", "t">>)
    @@ ("Market Cap" :> <<"M", "a", "r", "k", "e", "t", " ", "C", "a", "p">>)
    @@ ("market_cap" :> <<"m", "a", "r", "k", "e", "t", "_", "c", "a", "p">>)
    @@ ("volume" :> <<"v", "o", "l", "u", "m", "e">>)
    @@ ("Volume" :> <<"V", "o", "l", "u", "m", "e">>)

LowerOf ==
    ("A" :> "a")
    @@ ("B" :> "b")
    @@ ("C" :> "c")
    @@ ("D" :> "d")
    @@ ("E" :> "e")
    @@ ("F" :> "f")
    @@ ("G" :> "g")
    @@ ("H" :> "h")
    @@ ("I" :> "i")
    @@ ("J" :> "j")
    @@ ("K" :> "k")
    @@ ("L" :> "l")
    @@ ("M" :> "m")
    @@ ("N" :> "n")
    @@ ("O" :> "o")
    @@ ("P" :> "p")
    @@ ("Q" :> "q")
    @@ ("R" :> "r")
    @@ ("S" :> "s")
    @@ ("T" :> "t")
    @@ ("U" :> "u")
    @@ ("V" :> "v")
    @@ ("W" :> "w")
    @@ ("X" :> "x")
    @@ ("Y" :> "y")
    @@ ("Z" :> "z")


\* The string as it is, letter case kept.
lower_kept(s) == s

\* str.lower()
lower(s) == [i \in DOMAIN s |-> IF s[i] \in DOMAIN LowerOf THEN LowerOf[s[i]] ELSE s[i]]

\* str.replace(',', '.')
replace_comma(s) == [i \in DOMAIN s |-> IF s[i] = "," THEN "." ELSE s[i]]

DigitOf ==
    ("0" :> 0) @@ ("1" :> 1) @@ ("2" :> 2) @@ ("3" :> 3) @@ ("4" :> 4)
    @@ ("5" :> 5) @@ ("6" :> 6) @@ ("7" :> 7) @@ ("8" :> 8) @@ ("9" :> 9)

\* The integer the digits of s spell, the point left out.
RECURSIVE DigitsValue(_)
DigitsValue(s) ==
    IF s = <<>> THEN 0
    ELSE IF s[Len(s)] = "." THEN DigitsValue(SubSeq(s, 1, Len(s) - 1))
    ELSE 10 * DigitsValue(SubSeq(s, 1, Len(s) - 1)) + DigitOf[s[Len(s)]]

\* The number of digits after the point of s.
FractionDigits(s) ==
    IF \E i \in DOMAIN s : s[i] = "."
    THEN Len(s) - (CHOOSE i \in DOMAIN s : s[i] = ".")
    ELSE 0

\* Whether float(text) raises ValueError, for a text of digits, points and
\* characters float() gives no meaning (no sign, exponent, blank or
\* underscore, and not "inf" or "nan").
FloatRaises(s) ==
    \/ \E i \in DOMAIN s : s[i] \notin DOMAIN DigitOf /\ s[i] # "."
    \/ Cardinality({i \in DOMAIN s : s[i] = "."}) > 1
    \/ {i \in DOMAIN s : s[i] \in DOMAIN DigitOf} = {}

\* float(text) for a text it accepts; a Series holds it as a numpy float64.
FloatOf(s) == FromRatio(TRUE, DigitsValue(s), Pow10(FractionDigits(s)))

(***************************************************************************)
(* dict: keys in insertion order, and the value under each key.            *)
(***************************************************************************)
EmptyDict == [keys |-> <<>>, val |-> <<>>]

HasKey(d, k) == \E i \in DOMAIN d.keys : d.keys[i] = k

\* d[k] = v
DictSet(d, k, v) ==
    IF HasKey(d, k)
    THEN [d EXCEPT !.val = [i \in DOMAIN d.keys |-> IF d.keys[i] = k THEN v ELSE d.val[i]]]
    ELSE [keys |-> Append(d.keys, k), val |-> Append(d.val, v)]

\* d[k]
DictGet(d, k) == d.val[CHOOSE i \in DOMAIN d.keys : d.keys[i] = k]

KeySet(d) == {d.keys[i] : i \in DOMAIN d.keys}

\* d.update(items), items a sequence of <<key, value>>; also a run of
\* d[key] = value statements.
RECURSIVE DictUpdate(_, _)
DictUpdate(d, items) ==
    IF items = <<>> THEN d
    ELSE DictUpdate(DictSet(d, items[1][1], items[1][2]), Tail(items))

(***************************************************************************)
(* format_value                                                            *)
(***************************************************************************)
\* q + r / 2^bits rounded to the nearest integer, ties to even.
RoundHalfEven(q, r, bits) ==
    IF 2 * r > Pow2(bits) \/ (2 * r = Pow2(bits) /\ q % 2 = 1) THEN q + 1 ELSE q

\* The integer nearest to |a| * 10^d, ties to even: the digits of f"{a:.<d>f}".
RoundDec(a, d) ==
    IF a.m = 0 THEN 0
    ELSE IF a.e >= 0 THEN a.m * Pow2(a.e) * Pow10(d)
    ELSE IF -a.e > 30 THEN 0
    ELSE RoundHalfEven((a.m * Pow10(d)) \div Pow2(-a.e), (a.m * Pow10(d)) % Pow2(-a.e), -a.e)

\* The text of f"{pre}{a:{,}.{d}f}{suf}": its sign, digits and decorations.
Text(pre, a, d, grouped, suf) ==
    [pre |-> pre, suf |-> suf, grouped |-> grouped, decimals |-> d,
     special |-> IF a.k = "fin" THEN "" ELSE a.k,
     neg |-> a.k # "nan" /\ a.s = -1,
     digits |-> IF a.k = "fin" THEN RoundDec(a, d) ELSE 0]

\* The names format_value formats as currency, as written in its list.
CurrencyNames ==
    {"scrip_dividend", "price", "earnings_per_share", "price_to_earnings",
     "scrip dividend"}

\* The names format_value formats as a percentage.
PercentageNames ==
    {"scrip_dividend_yield", "reward_rate", "cash dividend yield",
     "scrip dividend yield", "buyback yield", "preferential shares staker",
     "ordinary shares staker", "participant dilution"}

\* The names format_value formats in millions.
MillionsNames ==
    {"circulating_supply", "buyback_nominal_amount", "cash dividend",
     "buyback nominal amount", "earnings", "ordinary shares"}

\* column.lower() in names, the strings compared by their characters.
LowerIn(column, names, chars) == \E n \in names : chars[n] = lower(chars[column])

\* format_value, given the characters of every name.
format_chars(value, column, chars) ==
    IF LowerIn(column, CurrencyNames, chars)
    THEN Text("$", value, 3, TRUE, "")
    ELSE IF LowerIn(column, PercentageNames, chars)
    THEN Text("", FMul(value, FromInt(FALSE, 100)), 2, FALSE, "%")
    ELSE IF LowerIn(column, MillionsNames, chars)
    THEN Text("", IEEEDiv(value, FromInt(FALSE, 1000000)), 2, TRUE, "M")
    ELSE Text("", value, 2, TRUE, "")

format_value(value, column) == format_chars(value, column, Chars)

(***************************************************************************)
(* calculations                                                            *)
(***************************************************************************)
Raised(exc) == [exc |-> exc, ret |-> EmptyDict]

Returned(d) == [exc |-> "none", ret |-> d]

\* The value of a local variable that is not assigned yet.
Unbound == NaN(FALSE)

\* The frame of a call of calculations: its parameters, its local variables,
\* and the exception it has raised.  price, circulating_supply, earnings and
\* inflation_factor are floats; base_fees and preferential_shares are Python
\* ints, as get_assets_data passes them.
Locals(price, circulating_supply, earnings, base_fees, preferential_shares, inflation_factor) ==
    [price |-> price, circulating_supply |-> circulating_supply,
     earnings |-> earnings, base_fees |-> base_fees,
     preferential_shares |-> preferential_shares,
     inflation_factor |-> inflation_factor,
     exc |-> "none",
     buyback_nominal_amount |-> Unbound, cash_dividend |-> Unbound,
     preferential_shares_amount |-> Unbound, ordinary_shares |-> Unbound,
     cash_dividend_yield |-> Unbound, scrip_dividend |-> Unbound,
     scrip_dividend_yield |-> Unbound, buyback_yield |-> Unbound,
     preferential_shares_staker |-> Unbound,
     ordinary_shares_staker |-> Unbound, participant_dilution |-> Unbound]

\* x * (percent / 100)
Share(x, percent) == FMul(ToPyFloat(x), FromRatio(FALSE, percent, 100))

\* x * (1 - (percent / 100))
Rest(x, percent) ==
    FMul(ToPyFloat(x), FSub(FromInt(FALSE, 1), FromRatio(FALSE, percent, 100)))

\* The internal share amount of line 70.
preferential_shares_amount(circulating_supply, preferential_shares) ==
    Share(circulating_supply, preferential_shares)

Line66(v) == [v EXCEPT !.buyback_nominal_amount = Share(v.earnings, v.base_fees)]

\* Line 67 without its "1 -".
Line67_fees(v) == [v EXCEPT !.cash_dividend = Share(v.earnings, v.base_fees)]

Line67(v) == [v EXCEPT !.cash_dividend = Rest(v.earnings, v.base_fees)]

Line70(v) ==
    [v EXCEPT !.preferential_shares_amount =
        preferential_shares_amount(v.circulating_supply, v.preferential_shares)]

\* Line 71 without its "1 -".
Line71_preferential(v) == [v EXCEPT !.ordinary_shares = Share(v.circulating_supply, v.preferential_shares)]

Line71(v) == [v EXCEPT !.ordinary_shares = Rest(v.circulating_supply, v.preferential_shares)]

\* v.<name> = a / b, or ZeroDivisionError.
Divide(v, name, a, b) ==
    IF DivRaises(a, b) THEN [v EXCEPT !.exc = "ZeroDivisionError"]
    ELSE [v EXCEPT ![name] = IEEEDiv(a, b)]

Line74(v) ==
    IF v.exc # "none" THEN v
    ELSE Divide(v, "cash_dividend_yield", v.cash_dividend, FMul(v.price, v.preferential_shares_amount))

\* math.sqrt raises ValueError below zero.
Line77(v) ==
    IF v.exc # "none" THEN v
    ELSE IF /\ v.preferential_shares_amount.s = -1
            /\ v.preferential_shares_amount.k # "nan"
            /\ ~IsZero(v.preferential_shares_amount)
    THEN [v EXCEPT !.exc = "ValueError"]
    ELSE [v EXCEPT !.scrip_dividend =
             FMul(v.inflation_factor, FSqrt(v.preferential_shares_amount))]

Line78(v) ==
    IF v.exc # "none" THEN v
    ELSE Divide(v, "scrip_dividend_yield", v.scrip_dividend, v.preferential_shares_amount)

Line81(v) ==
    IF v.exc # "none" THEN v
    ELSE Divide(v, "buyback_yield", v.buyback_nominal_amount, FMul(v.circulating_supply, v.price))

Line84(v) ==
    IF v.exc # "none" THEN v
    ELSE [v EXCEPT !.preferential_shares_staker =
             FAdd(v.cash_dividend_yield, v.scrip_dividend_yield)]

Line85(v) ==
    IF v.exc # "none" THEN v
    ELSE Divide(v, "ordinary_shares_staker", FSub(v.cash_dividend_yield, v.buyback_yield), v.buyback_yield)

Line88(v) ==
    IF v.exc # "none" THEN v
    ELSE [v EXCEPT !.participant_dilution =
             FAbs(FSub(v.preferential_shares_staker, v.ordinary_shares_staker))]

\* The return statement; an exception raised above propagates.
Line90(v) ==
    IF v.exc # "none" THEN Raised(v.exc)
    ELSE Returned(DictUpdate(EmptyDict, <<
             <<"Buyback Nominal Amount", v.buyback_nominal_amount>>,
             <<"Cash Dividend", v.cash_dividend>>,
             <<"Ordinary Shares", v.ordinary_shares>>,
             <<"Cash Dividend Yield", v.cash_dividend_yield>>,
             <<"Scrip Dividend", v.scrip_dividend>>,
             <<"Scrip Dividend Yield", v.scrip_dividend_yield>>,
             <<"Buyback Yield", v.buyback_yield>>,
             <<"Preferential Shares Staker", v.preferential_shares_staker>>,
             <<"Ordinary Shares Staker", v.ordinary_shares_staker>>,
             <<"Participant Dilution", v.participant_dilution>> >>))

\* The local variables when the body has run to its return or to the line
\* that raises.
Body(locals) ==
    Line88(Line85(Line84(Line81(Line78(Line77(Line74(Line71(Line70(Line67(Line66(locals)))))))))))

calculations(price, circulating_supply, earnings, base_fees, preferential_shares, inflation_factor) ==
    Line90(Body(Locals(price, circulating_supply, earnings, base_fees, preferential_shares, inflation_factor)))

(***************************************************************************)
(* Tables.  A DataFrame is its column names in order and its rows; a row   *)
(* is the asset name (first column) and one cell per later column.  A cell *)
(* is a str (as read from a CSV column pandas could not type) or a number. *)
(***************************************************************************)
Num(v) == [isstr |-> FALSE, text |-> <<>>, num |-> v]

Str(t) == [isstr |-> TRUE, text |-> t, num |-> NaN(TRUE)]

\* A missing asset name: pandas holds it as NaN, which equals nothing.
NoName == "<NaN>"

NameEq(a, b) == a # NoName /\ b # NoName /\ a = b

Frame(columns, rows) == [columns |-> columns, rows |-> rows]

\* asset_data.columns[1:]
NumericColumns(df) == SubSeq(df.columns, 2, Len(df.columns))

\* The cell of row i under the j-th column after the first.
Cell(df, i, j) == df.rows[i].cells[df.columns[j + 1]]

\* Whether clean_numeric_columns raises ValueError: some str cell of some
\* column of dtype object is no number once its commas are periods.
clean_raises(df) ==
    \E i \in DOMAIN df.rows : \E j \in 1..(Len(df.columns) - 1) :
        Cell(df, i, j).isstr /\ FloatRaises(replace_comma(Cell(df, i, j).text))

\* df[col].dtype == 'object': the column holds a str.
IsObject(df, col) == \E i \in DOMAIN df.rows : df.rows[i].cells[col].isstr

\* The lambda of line 21.
CleanCell(x) == IF x.isstr THEN Num(FloatOf(replace_comma(x.text))) ELSE x

clean_numeric_columns(df) ==
    [df EXCEPT !.rows =
        [i \in DOMAIN df.rows |->
            [df.rows[i] EXCEPT !.cells =
                [col \in DOMAIN df.rows[i].cells |->
                    IF IsObject(df, col) THEN CleanCell(df.rows[i].cells[col])
                    ELSE df.rows[i].cells[col]]]]]

\* seen, and x after it unless seen holds x.
AppendNew(seen, x) == IF \E i \in DOMAIN seen : seen[i] = x THEN seen ELSE Append(seen, x)

\* Every name, repeated ones too.
Unique_all(names) == names

\* Series.unique(): first occurrences, in order; NaN once.
RECURSIVE Unique(_)
Unique(names) ==
    IF names = <<>> THEN <<>>
    ELSE AppendNew(Unique(SubSeq(names, 1, Len(names) - 1)), names[Len(names)])

\* df['assets']
AssetNames(df) == [i \in DOMAIN df.rows |-> df.rows[i].name]

IsAsset(r, asset) == NameEq(r.name, asset)

\* The rows of a sequence whose name equals asset.
RECURSIVE Matching(_, _)
Matching(rows, asset) ==
    IF rows = <<>> THEN <<>>
    ELSE IF IsAsset(rows[1], asset) THEN <<rows[1]>> \o Matching(Tail(rows), asset)
    ELSE Matching(Tail(rows), asset)

\* df_price[df_price['assets'] == asset]
RowsOf(df, asset) == Frame(df.columns, Matching(df.rows, asset))

(***************************************************************************)
(* display_metrics_as_formated_list, display_metrics_as_list               *)
(***************************************************************************)
\* The loop over the columns with the values never formatted.
RECURSIVE Carried_raw(_, _, _)
Carried_raw(row, columns, formatted) ==
    IF columns = <<>> THEN <<>>
    ELSE IF columns[1] = "Market Cap" THEN Carried_raw(row, Tail(columns), formatted)
    ELSE <<<<columns[1], row.cells[columns[1]].num>>>>
         \o Carried_raw(row, Tail(columns), formatted)

\* The loop over the columns with the values always formatted.
RECURSIVE Carried_formatted(_, _, _)
Carried_formatted(row, columns, formatted) ==
    IF columns = <<>> THEN <<>>
    ELSE IF columns[1] = "Market Cap" THEN Carried_formatted(row, Tail(columns), formatted)
    ELSE <<<<columns[1], format_value(row.cells[columns[1]].num, columns[1])>>>>
         \o Carried_formatted(row, Tail(columns), formatted)

\* The (column, value) pairs of the loop over asset_data.columns[1:], the
\* value as format_value renders it or as the row holds it.
RECURSIVE Carried(_, _, _)
Carried(row, columns, formatted) ==
    IF columns = <<>> THEN <<>>
    ELSE IF columns[1] = "Market Cap" THEN Carried(row, Tail(columns), formatted)
    ELSE IF formatted
    THEN <<<<columns[1], format_value(row.cells[columns[1]].num, columns[1])>>>>
         \o Carried(row, Tail(columns), formatted)
    ELSE <<<<columns[1], row.cells[columns[1]].num>>>>
         \o Carried(row, Tail(columns), formatted)

\* The arguments of the call of calculations: .values[0] of three columns,
\* and the parameters handed through.
CallOf(asset_data, base_fees, preferential_shares, inflation_factor) ==
    [price |-> asset_data.rows[1].cells["price"].num,
     circulating_supply |-> asset_data.rows[1].cells["circulating_supply"].num,
     earnings |-> asset_data.rows[1].cells["Earnings"].num,
     base_fees |-> base_fees,
     preferential_shares |-> preferential_shares,
     inflation_factor |-> inflation_factor]

Calculate(c) ==
    calculations(c.price, c.circulating_supply, c.earnings, c.base_fees, c.preferential_shares, c.inflation_factor)

\* What a display function did: the exception it raised or the mapping it
\* returned, the calls of calculations it made, and the frame as it left it.
Outcome(exc, ret, calls, frame) == [exc |-> exc, ret |-> ret, calls |-> calls, frame |-> frame]

\* metrics = {"Asset": ...} and the loop over the columns.
FromRow(asset_data, formatted) ==
    DictUpdate(DictSet(EmptyDict, "Asset", asset_data.rows[1].name),
               Carried(asset_data.rows[1], NumericColumns(asset_data), formatted))

\* display_metrics_as_formated_list from line 124 on.
FormattedMetrics(asset_data, call, calculated_data) ==
    IF calculated_data.exc # "none"
    THEN Outcome(calculated_data.exc, EmptyDict, <<call>>, asset_data)
    ELSE Outcome("none",
            DictUpdate(FromRow(asset_data, TRUE), <<
                <<"Cash Dividend", format_value(DictGet(calculated_data.ret, "Cash Dividend"), "Cash Dividend")>>,
                <<"Cash Dividend Yield", format_value(DictGet(calculated_data.ret, "Cash Dividend Yield"), "Cash Dividend Yield")>>,
                <<"Preferential Shares Staker", format_value(DictGet(calculated_data.ret, "Preferential Shares Staker"), "Preferential Shares Staker")>>,
                <<"Scrip Dividend", format_value(DictGet(calculated_data.ret, "Scrip Dividend"), "Scrip Dividend")>>,
                <<"Scrip Dividend Yield", format_value(DictGet(calculated_data.ret, "Scrip Dividend Yield"), "Scrip Dividend Yield")>>,
                <<"Ordinary Shares Staker", format_value(DictGet(calculated_data.ret, "Ordinary Shares Staker"), "Ordinary Shares Staker")>>,
                <<"Participant Dilution", format_value(DictGet(calculated_data.ret, "Participant Dilution"), "Participant Dilution")>> >>),
            <<call>>, asset_data)

\* display_metrics_as_formated_list with the arguments of its call of
\* calculations.
FormattedCall(asset_data, call) == FormattedMetrics(asset_data, call, Calculate(call))

display_metrics_as_formated_list(asset_data, base_fees, preferential_shares, inflation_factor) ==
    FormattedCall(asset_data, CallOf(asset_data, base_fees, preferential_shares, inflation_factor))

\* display_metrics_as_list with the last entry of its update left out.
RawMetrics_short(asset_data, call, calculated_data) ==
    IF calculated_data.exc # "none"
    THEN Outcome(calculated_data.exc, EmptyDict, <<call>>, asset_data)
    ELSE Outcome("none",
            DictUpdate(FromRow(asset_data, FALSE), <<
                <<"Cash Dividend", DictGet(calculated_data.ret, "Cash Dividend")>>,
                <<"Cash Dividend Yield", DictGet(calculated_data.ret, "Cash Dividend Yield")>>,
                <<"Preferential Shares Staker", DictGet(calculated_data.ret, "Preferential Shares Staker")>>,
                <<"Scrip Dividend", DictGet(calculated_data.ret, "Scrip Dividend")>>,
                <<"Scrip Dividend Yield", DictGet(calculated_data.ret, "Scrip Dividend Yield")>>,
                <<"Ordinary Shares Staker", DictGet(calculated_data.ret, "Ordinary Shares Staker")>> >>),
            <<call>>, asset_data)

\* display_metrics_as_list from line 157 on.
RawMetrics(asset_data, call, calculated_data) ==
    IF calculated_data.exc # "none"
    THEN Outcome(calculated_data.exc, EmptyDict, <<call>>, asset_data)
    ELSE Outcome("none",
            DictUpdate(FromRow(asset_data, FALSE), <<
                <<"Cash Dividend", DictGet(calculated_data.ret, "Cash Dividend")>>,
                <<"Cash Dividend Yield", DictGet(calculated_data.ret, "Cash Dividend Yield")>>,
                <<"Preferential Shares Staker", DictGet(calculated_data.ret, "Preferential Shares Staker")>>,
                <<"Scrip Dividend", DictGet(calculated_data.ret, "Scrip Dividend")>>,
                <<"Scrip Dividend Yield", DictGet(calculated_data.ret, "Scrip Dividend Yield")>>,
                <<"Ordinary Shares Staker", DictGet(calculated_data.ret, "Ordinary Shares Staker")>>,
                <<"Participant Dilution", DictGet(calculated_data.ret, "Participant Dilution")>> >>),
            <<call>>, asset_data)

\* display_metrics_as_list with the arguments of its call of calculations.
RawCall(asset_data, call) == RawMetrics(asset_data, call, Calculate(call))

\* display_metrics_as_list handing base_fees and preferential_shares to
\* calculations in each other's place.
display_metrics_as_list_swapped(asset_data, base_fees, preferential_shares, inflation_factor) ==
    RawCall(asset_data, CallOf(asset_data, preferential_shares, base_fees, inflation_factor))

display_metrics_as_list(asset_data, base_fees, preferential_shares, inflation_factor) ==
    RawCall(asset_data, CallOf(asset_data, base_fees, preferential_shares, inflation_factor))

(***************************************************************************)
(* State                                                                   *)
(***************************************************************************)
VARIABLES
    pc,                     \* where get_assets_data stands
    df_price,               \* the price table (cleaned at line 188)
    todo,                   \* the unique asset names the loop has yet to visit
    all_assets_data,        \* line 185
    all_assets_data_plots,  \* line 186
    calls,                  \* every call of calculations made so far
    notices,                \* what st.write showed inside the loop
    raised,                 \* the exception that ended the run, or "none"
    report,                 \* the tables and charts shown, lines 204-239
    c_args, c_out, c_done,  \* a call of calculations and its outcome
    f_args, f_out, f_done,  \* a call of format_value and its result
    a_args, a_formatted, a_raw, a_step \* calls of the two display functions

prog_vars == <<pc, df_price, todo, all_assets_data, all_assets_data_plots, calls, notices, raised, report>>

calc_vars == <<c_args, c_out, c_done>>

fmt_vars == <<f_args, f_out, f_done>>

agg_vars == <<a_args, a_formatted, a_raw, a_step>>

vars == <<prog_vars, calc_vars, fmt_vars, agg_vars>>

(***************************************************************************)
(* Inputs                                                                  *)
(***************************************************************************)
\* The literals of lines 199 and 201.
RunBaseFees == 90

RunPreferentialShares == 25

RunInflationFactor == FromRatio(FALSE, 1663, 10)

BaseColumns ==
    <<"assets", "price", "circulating_supply", "reward_rate", "Earnings",
      "earnings_per_share", "price_to_earnings">>

Names == {"BTC", "ETH", NoName}

PriceCells == {Num(FromInt(TRUE, 2)), Str(<<"2", ",", "5">>)}

SupplyCells == {Num(FromInt(TRUE, 13)), Num(FromInt(TRUE, 0))}

EarningsCells ==
    {Num(FromInt(TRUE, 50)), Str(<<"1", ",", "5">>), Str(<<"n", "/", "a">>)}

\* A row with the columns of BaseColumns and those of extra.
Row(name, price, supply, earnings, extra) ==
    [name |-> name,
     cells |-> [c \in {BaseColumns[i] : i \in 2..Len(BaseColumns)} \cup extra |->
                  IF c = "price" THEN price
                  ELSE IF c = "circulating_supply" THEN supply
                  ELSE IF c = "Earnings" THEN earnings
                  ELSE IF c = "reward_rate" THEN Num(FromRatio(TRUE, 532, 10000))
                  ELSE IF c = "earnings_per_share" THEN Num(FromRatio(TRUE, 15, 4))
                  ELSE IF c = "price_to_earnings" THEN Num(FromInt(TRUE, 8))
                  ELSE Num(FromInt(TRUE, 26))]]

\* The rows a price table may hold.
RowsWith(extra) ==
    {Row(n, p, s, e, extra) : n \in Names, p \in PriceCells, s \in SupplyCells, e \in EarningsCells}

Tables(rows, most) == UNION {[1..n -> rows] : n \in 1..most}

IdleFrame == Frame(BaseColumns, <<>>)

IdleReport == [part1 |-> <<>>, part2 |-> <<>>, charts |-> <<>>]

IdleCall ==
    [price |-> FromInt(TRUE, 0), circulating_supply |-> FromInt(TRUE, 0),
     earnings |-> FromInt(TRUE, 0), base_fees |-> RunBaseFees,
     preferential_shares |-> RunPreferentialShares,
     inflation_factor |-> RunInflationFactor]

IdleOutcome == Outcome("none", EmptyDict, <<>>, IdleFrame)

ProgIdle ==
    /\ pc = "idle"
    /\ df_price = IdleFrame
    /\ todo = <<>>
    /\ all_assets_data = <<>>
    /\ all_assets_data_plots = <<>>
    /\ calls = <<>>
    /\ notices = <<>>
    /\ raised = "none"
    /\ report = IdleReport

CalcIdle ==
    /\ c_args = IdleCall
    /\ c_out = Raised("none")
    /\ c_done = FALSE

FmtIdle ==
    /\ f_args = [value |-> FromInt(FALSE, 0), column |-> "price"]
    /\ f_out = Text("", FromInt(FALSE, 0), 0, FALSE, "")
    /\ f_done = FALSE

AggIdle ==
    /\ a_args = [asset_data |-> IdleFrame, base_fees |-> RunBaseFees, preferential_shares |-> RunPreferentialShares, inflation_factor |-> RunInflationFactor]
    /\ a_formatted = IdleOutcome
    /\ a_raw = IdleOutcome
    /\ a_step = "idle"

(***************************************************************************)
(* get_assets_data                                                         *)
(***************************************************************************)
Init ==
    /\ pc = "clean"
    /\ \E t \in Tables(RowsWith({"Market Cap"}), MaxRows) :
          df_price = Frame(Append(BaseColumns, "Market Cap"), t)
    /\ todo = <<>>
    /\ all_assets_data = <<>>
    /\ all_assets_data_plots = <<>>
    /\ calls = <<>>
    /\ notices = <<>>
    /\ raised = "none"
    /\ report = IdleReport
    /\ CalcIdle /\ FmtIdle /\ AggIdle

\* Line 188, and the evaluation of df_price['assets'].unique() at line 190.
Clean ==
    /\ pc = "clean"
    /\ IF clean_raises(df_price)
       THEN /\ raised' = "ValueError"
            /\ pc' = "error"
            /\ UNCHANGED <<df_price, todo>>
       ELSE /\ df_price' = clean_numeric_columns(df_price)
            /\ todo' = Unique(AssetNames(df_price))
            /\ pc' = "loop"
            /\ UNCHANGED raised
    /\ UNCHANGED <<all_assets_data, all_assets_data_plots, calls, notices, report>>
    /\ UNCHANGED <<calc_vars, fmt_vars, agg_vars>>

\* Lines 191-195: no row compares equal to the asset.
NotFound ==
    /\ pc = "loop" /\ todo # <<>>
    /\ RowsOf(df_price, todo[1]).rows = <<>>
    /\ notices' = Append(notices, todo[1])
    /\ todo' = Tail(todo)
    /\ UNCHANGED <<pc, df_price, all_assets_data, all_assets_data_plots, calls, raised, report>>
    /\ UNCHANGED <<calc_vars, fmt_vars, agg_vars>>

\* Lines 191, 199, 200.
Formatted ==
    /\ pc = "loop" /\ todo # <<>>
    /\ RowsOf(df_price, todo[1]).rows # <<>>
    /\ \E metrics \in {display_metrics_as_formated_list(RowsOf(df_price, todo[1]), RunBaseFees, RunPreferentialShares, RunInflationFactor)} :
           /\ calls' = calls \o metrics.calls
           /\ IF metrics.exc # "none"
              THEN /\ raised' = metrics.exc
                   /\ pc' = "error"
                   /\ UNCHANGED all_assets_data
              ELSE /\ all_assets_data' = Append(all_assets_data, metrics.ret)
                   /\ pc' = "formatted"
                   /\ UNCHANGED raised
    /\ UNCHANGED <<df_price, todo, all_assets_data_plots, notices, report>>
    /\ UNCHANGED <<calc_vars, fmt_vars, agg_vars>>

\* Lines 201, 202.
Unformatted ==
    /\ pc = "formatted"
    /\ \E metrics_unformated \in {display_metrics_as_list(RowsOf(df_price, todo[1]), RunBaseFees, RunPreferentialShares, RunInflationFactor)} :
           /\ calls' = calls \o metrics_unformated.calls
           /\ IF metrics_unformated.exc # "none"
              THEN /\ raised' = metrics_unformated.exc
                   /\ pc' = "error"
                   /\ UNCHANGED <<all_assets_data_plots, todo>>
              ELSE /\ all_assets_data_plots' = Append(all_assets_data_plots, metrics_unformated.ret)
                   /\ todo' = Tail(todo)
                   /\ pc' = "loop"
                   /\ UNCHANGED raised
    /\ UNCHANGED <<df_price, all_assets_data, notices, report>>
    /\ UNCHANGED <<calc_vars, fmt_vars, agg_vars>>

Range(s) == {s[i] : i \in DOMAIN s}

\* The keys of s that seen does not hold, in order.
RECURSIVE NewKeys(_, _)
NewKeys(seen, s) ==
    IF s = <<>> THEN <<>>
    ELSE IF s[1] \in Range(seen) THEN NewKeys(seen, Tail(s))
    ELSE <<s[1]>> \o NewKeys(seen, Tail(s))

\* seen and the keys of s new to it.
WithKeys(seen, s) == seen \o NewKeys(seen, s)

\* pd.DataFrame(list of dicts).columns: every key, in order of first use.
RECURSIVE FrameColumns(_)
FrameColumns(dicts) ==
    IF dicts = <<>> THEN <<>>
    ELSE WithKeys(FrameColumns(SubSeq(dicts, 1, Len(dicts) - 1)), dicts[Len(dicts)].keys)

\* The columns a frame is left with by drop(columns=[name]).
RECURSIVE Dropped(_, _)
Dropped(columns, name) ==
    IF columns = <<>> THEN <<>>
    ELSE IF columns[1] = name THEN Dropped(Tail(columns), name)
    ELSE <<columns[1]>> \o Dropped(Tail(columns), name)

Part1Columns == <<"Asset", "price", "circulating_supply", "reward_rate", "Earnings", "earnings_per_share", "price_to_earnings">>

Part2Columns == <<"Asset", "Cash Dividend", "Cash Dividend Yield", "Preferential Shares Staker", "Scrip Dividend", "Scrip Dividend Yield", "Participant Dilution">>

\* df[columns] shown as a table: one row per dict, the chosen columns.
Shown(dicts, columns) ==
    [i \in DOMAIN dicts |-> [j \in DOMAIN columns |-> DictGet(dicts[i], columns[j])]]

\* One bar chart per metric of lines 225-239.
Charts(dicts, metrics) ==
    [i \in DOMAIN metrics |->
        [metric |-> metrics[i],
         x |-> Shown(dicts, <<"Asset">>),
         y |-> Shown(dicts, <<metrics[i]>>)]]

\* Whether lines 208-239 raise: a column dropped or selected is not there
\* (KeyError), or a column plotted is not.
RenderRaises(columns, plotted) ==
    \/ "Ordinary Shares Staker" \notin Range(columns)
    \/ "Ordinary Shares Staker" \notin Range(plotted)
    \/ ~(Range(Part1Columns) \cup Range(Part2Columns) \subseteq Range(columns))
    \/ ~(Range(columns) \subseteq Range(plotted))

\* Lines 204-239, when the loop has visited every asset.
Render ==
    /\ pc = "loop" /\ todo = <<>>
    /\ \E columns \in {FrameColumns(all_assets_data)}, plotted \in {FrameColumns(all_assets_data_plots)} :
           IF RenderRaises(columns, plotted)
           THEN /\ raised' = "KeyError"
                /\ pc' = "error"
                /\ UNCHANGED report
           ELSE /\ report' =
                     [part1 |-> Shown(all_assets_data, Part1Columns),
                      part2 |-> Shown(all_assets_data, Part2Columns),
                      charts |-> Charts(all_assets_data_plots, Tail(Dropped(columns, "Ordinary Shares Staker")))]
                /\ pc' = "done"
                /\ UNCHANGED raised
    /\ UNCHANGED <<df_price, todo, all_assets_data, all_assets_data_plots, calls, notices>>
    /\ UNCHANGED <<calc_vars, fmt_vars, agg_vars>>

Next == Clean \/ NotFound \/ Formatted \/ Unformatted \/ Render

Spec == Init /\ [][Next]_vars

(***************************************************************************)
(* calculations called on its own                                          *)
(***************************************************************************)
\* A number as a frame hands it over (numpy) or as a Python float.
Number(np, n, d) == FromRatio(np, n, d)

PriceInputs == {0, 2}

SupplyInputs == {0, 13, 21, 400}

\* Earnings in halves: 0, 1.5, 3, 7, 50.
EarningsInputs == {0, 3, 6, 14, 100}

BaseFeesInputs == {0, 10, 50, 90, 100}

PreferentialSharesInputs == {0, 10, 25, 100}

CalcInit ==
    /\ ProgIdle /\ FmtIdle /\ AggIdle
    /\ \E np \in BOOLEAN, p \in PriceInputs, s \in SupplyInputs, e \in EarningsInputs, b \in BaseFeesInputs, ps \in PreferentialSharesInputs :
          c_args = [price |-> Number(np, p, 1),
                    circulating_supply |-> Number(np, s, 1),
                    earnings |-> Number(np, e, 2),
                    base_fees |-> b,
                    preferential_shares |-> ps,
                    inflation_factor |-> RunInflationFactor]
    /\ c_out = Raised("none")
    /\ c_done = FALSE

\* One call of calculations, lines 48-101.
Calc ==
    /\ ~c_done
    /\ c_out' = Calculate(c_args)
    /\ c_done' = TRUE
    /\ UNCHANGED <<c_args, prog_vars, fmt_vars, agg_vars>>

CalcNext == Calc

CalcSpec == CalcInit /\ [][CalcNext]_vars

(***************************************************************************)
(* format_value called on its own                                          *)
(***************************************************************************)
\* 0.0532, 3.14159, 12345 and -2.5 as the frame holds them, and numpy's inf.
FormatValues ==
    {FromRatio(TRUE, 532, 10000), FromRatio(TRUE, 314159, 100000),
     FromInt(TRUE, 12345), FromRatio(TRUE, -5, 2), Inf(TRUE, 1)}

FormatInit ==
    /\ ProgIdle /\ CalcIdle /\ AggIdle
    /\ \E value \in FormatValues, column \in DOMAIN Chars :
          f_args = [value |-> value, column |-> column]
    /\ f_out = Text("", FromInt(FALSE, 0), 0, FALSE, "")
    /\ f_done = FALSE

\* One call of format_value, lines 25-46.
Format ==
    /\ ~f_done
    /\ f_out' = format_value(f_args.value, f_args.column)
    /\ f_done' = TRUE
    /\ UNCHANGED <<f_args, prog_vars, calc_vars, agg_vars>>

FormatNext == Format

FormatSpec == FormatInit /\ [][FormatNext]_vars

(***************************************************************************)
(* The two display functions called on one asset's rows                    *)
(***************************************************************************)
\* Columns a price table may carry besides the ones get_assets_data names:
\* none, 'Market Cap', or 'Market Cap', a column of its own and a column
\* named as a computed metric.
ExtraChoices == {{}, {"Market Cap"}, {"Market Cap", "volume", "Cash Dividend"}}

AggPriceCells == {Num(FromInt(TRUE, 2)), Num(FromInt(TRUE, 0))}

AggSupplyCells == {Num(FromInt(TRUE, 13)), Num(FromInt(TRUE, 0))}

AggEarningsCells == {Num(FromInt(TRUE, 50))}

\* The rows of one asset, numbers throughout as clean_numeric_columns leaves
\* them.
AggRows(extra) ==
    {Row("BTC", p, s, e, extra) : p \in AggPriceCells, s \in AggSupplyCells, e \in AggEarningsCells}

\* The columns in table order, the extra ones last.
RECURSIVE ColumnsWith(_)
ColumnsWith(extra) ==
    IF extra = {} THEN BaseColumns
    ELSE Append(ColumnsWith(extra \ {CHOOSE c \in extra : \A d \in extra : Len(Chars[c]) >= Len(Chars[d])}),
                CHOOSE c \in extra : \A d \in extra : Len(Chars[c]) >= Len(Chars[d]))

AggInit ==
    /\ ProgIdle /\ CalcIdle /\ FmtIdle
    /\ \E extra \in ExtraChoices, b \in {0, RunBaseFees}, ps \in {10, RunPreferentialShares} :
          \E t \in Tables(AggRows(extra), MaxRows) :
              a_args = [asset_data |-> Frame(ColumnsWith(extra), t),
                        base_fees |-> b,
                        preferential_shares |-> ps,
                        inflation_factor |-> RunInflationFactor]
    /\ a_formatted = IdleOutcome
    /\ a_raw = IdleOutcome
    /\ a_step = "start"

\* display_metrics_as_formated_list, lines 103-147.
CallFormatted ==
    /\ a_step = "start"
    /\ a_formatted' = display_metrics_as_formated_list(a_args.asset_data, a_args.base_fees, a_args.preferential_shares, a_args.inflation_factor)
    /\ a_step' = "formatted"
    /\ UNCHANGED <<a_args, a_raw, prog_vars, calc_vars, fmt_vars>>

\* display_metrics_as_list, lines 149-179, on the frame as the first call
\* left it.
CallRaw ==
    /\ a_step = "formatted"
    /\ a_raw' = display_metrics_as_list(a_formatted.frame, a_args.base_fees, a_args.preferential_shares, a_args.inflation_factor)
    /\ a_step' = "done"
    /\ UNCHANGED <<a_args, a_formatted, prog_vars, calc_vars, fmt_vars>>

AggNext == CallFormatted \/ CallRaw

AggSpec == AggInit /\ [][AggNext]_vars

(***************************************************************************)
(* Properties of calculations (CalcSpec)                                   *)
(***************************************************************************)
\* The call has a zero divisor in the sense of claim C1.
ZeroDivisor(c) ==
    \/ IsZero(c.price)
    \/ IsZero(c.circulating_supply)
    \/ c.preferential_shares = 0
    \/ c.base_fees = 0

\* Some value of the mapping is infinite or NaN.
HasNonFinite(d) == \E i \in DOMAIN d.val : d.val[i].k # "fin"

\* C1: a call of calculations with a zero divisor (price = 0,
\* circulating_supply = 0, preferential_shares = 0 or base_fees = 0) ends in
\* a division-by-zero failure and never returns a mapping holding an
\* infinite or NaN value.
C1_ZeroDivisorRaises ==
    (c_done /\ ZeroDivisor(c_args))
        => (c_out.exc = "ZeroDivisionError" /\ ~HasNonFinite(c_out.ret))

Positive(a) == a.k = "fin" /\ a.s = 1 /\ a.m > 0

\* The inputs claim C7 speaks of.
C7_Inputs ==
    /\ Positive(c_args.price)
    /\ Positive(c_args.circulating_supply)
    /\ Positive(c_args.earnings)
    /\ c_args.base_fees > 0 /\ c_args.base_fees < 100
    /\ c_args.preferential_shares > 0 /\ c_args.preferential_shares < 100

\* C7: for positive price, circulating_supply and earnings and base_fees and
\* preferential_shares strictly between 0 and 100, calculations returns, and
\* 'Cash Dividend' + 'Buyback Nominal Amount' is earnings to within four
\* units in the last place.
C7_DividendPlusBuybackIsEarnings ==
    (c_done /\ C7_Inputs)
        => /\ c_out.exc = "none"
           /\ WithinUlps(FAdd(DictGet(c_out.ret, "Cash Dividend"),
                              DictGet(c_out.ret, "Buyback Nominal Amount")),
                         c_args.earnings, 4)

\* C7 witness: a returned call on such inputs, with fees that are no binary
\* fraction and earnings that are no integer.
C7_Witness ==
    /\ c_done /\ C7_Inputs
    /\ c_args.base_fees = 10
    /\ NumEq(c_args.earnings, FromRatio(FALSE, 3, 2))
    /\ c_out.exc = "none"

\* 'Ordinary Shares' + preferential_shares_amount of a returned call.
C8_Sum ==
    FAdd(DictGet(c_out.ret, "Ordinary Shares"),
         preferential_shares_amount(c_args.circulating_supply, c_args.preferential_shares))

\* C8 as stated: for every call of calculations that returns, 'Ordinary
\* Shares' + preferential_shares_amount equals circulating_supply.
C8_SharesPartitionSupplyExactly ==
    (c_done /\ c_out.exc = "none") => NumEq(C8_Sum, c_args.circulating_supply)

\* C8 amended: for a returned call with preferential_shares from 0 to 100,
\* 'Ordinary Shares' + preferential_shares_amount is circulating_supply to
\* within four units in the last place, and exactly so for the 25 per cent
\* that get_assets_data passes; preferential_shares_amount is the divisor of
\* 'Scrip Dividend Yield' and, times price, of 'Cash Dividend Yield'.
C8_SharesPartitionSupply ==
    (c_done /\ c_out.exc = "none"
        /\ c_args.preferential_shares >= 0 /\ c_args.preferential_shares <= 100)
        => /\ WithinUlps(C8_Sum, c_args.circulating_supply, 4)
           /\ (c_args.preferential_shares = RunPreferentialShares
                  => NumEq(C8_Sum, c_args.circulating_supply))
           /\ DictGet(c_out.ret, "Scrip Dividend Yield")
                 = IEEEDiv(DictGet(c_out.ret, "Scrip Dividend"),
                           preferential_shares_amount(c_args.circulating_supply, c_args.preferential_shares))
           /\ DictGet(c_out.ret, "Cash Dividend Yield")
                 = IEEEDiv(DictGet(c_out.ret, "Cash Dividend"),
                           FMul(c_args.price, preferential_shares_amount(c_args.circulating_supply, c_args.preferential_shares)))

\* C8 witness: a returned call whose two share amounts do not add up to the
\* supply exactly.
C8_Witness ==
    /\ c_done /\ c_out.exc = "none"
    /\ c_args.preferential_shares = 10
    /\ ~NumEq(C8_Sum, c_args.circulating_supply)

(***************************************************************************)
(* Properties of format_value (FormatSpec)                                 *)
(***************************************************************************)
\* The rule a formatted text shows: currency has the "$", a percentage the
\* "%", millions the "M".
Rule(t) ==
    IF t.pre = "$" /\ t.decimals = 3 /\ t.grouped THEN "currency"
    ELSE IF t.suf = "%" /\ t.decimals = 2 /\ ~t.grouped THEN "percentage"
    ELSE IF t.suf = "M" /\ t.decimals = 2 /\ t.grouped THEN "millions"
    ELSE IF t.pre = "" /\ t.suf = "" /\ t.decimals = 2 /\ t.grouped THEN "default"
    ELSE "none"

\* The currency names of claim C6, underscore and space spelling, in lower, title
\* and upper case.
C6_ClaimedCurrency ==
    {"scrip_dividend", "Scrip_Dividend", "SCRIP_DIVIDEND",
     "scrip dividend", "Scrip Dividend", "SCRIP DIVIDEND", "price",
     "Price", "PRICE", "earnings_per_share", "Earnings_Per_Share",
     "EARNINGS_PER_SHARE", "earnings per share", "Earnings Per Share",
     "EARNINGS PER SHARE", "price_to_earnings", "Price_To_Earnings",
     "PRICE_TO_EARNINGS", "price to earnings", "Price To Earnings",
     "PRICE TO EARNINGS"}

\* The percentage names of claim C6, underscore and space spelling, in lower, title
\* and upper case.
C6_ClaimedPercentage ==
    {"scrip_dividend_yield", "Scrip_Dividend_Yield",
     "SCRIP_DIVIDEND_YIELD", "scrip dividend yield",
     "Scrip Dividend Yield", "SCRIP DIVIDEND YIELD", "reward_rate",
     "Reward_Rate", "REWARD_RATE", "reward rate", "Reward Rate",
     "REWARD RATE", "cash_dividend_yield", "Cash_Dividend_Yield",
     "CASH_DIVIDEND_YIELD", "cash dividend yield", "Cash Dividend Yield",
     "CASH DIVIDEND YIELD", "buyback_yield", "Buyback_Yield",
     "BUYBACK_YIELD", "buyback yield", "Buyback Yield", "BUYBACK YIELD",
     "preferential_shares_staker", "Preferential_Shares_Staker",
     "PREFERENTIAL_SHARES_STAKER", "preferential shares staker",
     "Preferential Shares Staker", "PREFERENTIAL SHARES STAKER",
     "ordinary_shares_staker", "Ordinary_Shares_Staker",
     "ORDINARY_SHARES_STAKER", "ordinary shares staker",
     "Ordinary Shares Staker", "ORDINARY SHARES STAKER",
     "participant_dilution", "Participant_Dilution",
     "PARTICIPANT_DILUTION", "participant dilution",
     "Participant Dilution", "PARTICIPANT DILUTION"}

\* The millions names of claim C6, underscore and space spelling, in lower, title
\* and upper case.
C6_ClaimedMillions ==
    {"circulating_supply", "Circulating_Supply", "CIRCULATING_SUPPLY",
     "circulating supply", "Circulating Supply", "CIRCULATING SUPPLY",
     "buyback_nominal_amount", "Buyback_Nominal_Amount",
     "BUYBACK_NOMINAL_AMOUNT", "buyback nominal amount",
     "Buyback Nominal Amount", "BUYBACK NOMINAL AMOUNT", "cash_dividend",
     "Cash_Dividend", "CASH_DIVIDEND", "cash dividend", "Cash Dividend",
     "CASH DIVIDEND", "earnings", "Earnings", "EARNINGS",
     "ordinary_shares", "Ordinary_Shares", "ORDINARY_SHARES",
     "ordinary shares", "Ordinary Shares", "ORDINARY SHARES"}

\* The currency spellings format_value lists, in lower, title and upper case.
C6_ListedCurrency ==
    {"scrip_dividend", "Scrip_Dividend", "SCRIP_DIVIDEND", "price",
     "Price", "PRICE", "earnings_per_share", "Earnings_Per_Share",
     "EARNINGS_PER_SHARE", "price_to_earnings", "Price_To_Earnings",
     "PRICE_TO_EARNINGS", "scrip dividend", "Scrip Dividend",
     "SCRIP DIVIDEND"}

\* The percentage spellings format_value lists, in lower, title and upper case.
C6_ListedPercentage ==
    {"scrip_dividend_yield", "Scrip_Dividend_Yield",
     "SCRIP_DIVIDEND_YIELD", "reward_rate", "Reward_Rate", "REWARD_RATE",
     "cash dividend yield", "Cash Dividend Yield", "CASH DIVIDEND YIELD",
     "scrip dividend yield", "Scrip Dividend Yield",
     "SCRIP DIVIDEND YIELD", "buyback yield", "Buyback Yield",
     "BUYBACK YIELD", "preferential shares staker",
     "Preferential Shares Staker", "PREFERENTIAL SHARES STAKER",
     "ordinary shares staker", "Ordinary Shares Staker",
     "ORDINARY SHARES STAKER", "participant dilution",
     "Participant Dilution", "PARTICIPANT DILUTION"}

\* The millions spellings format_value lists, in lower, title and upper case.
C6_ListedMillions ==
    {"circulating_supply", "Circulating_Supply", "CIRCULATING_SUPPLY",
     "buyback_nominal_amount", "Buyback_Nominal_Amount",
     "BUYBACK_NOMINAL_AMOUNT", "cash dividend", "Cash Dividend",
     "CASH DIVIDEND", "buyback nominal amount", "Buyback Nominal Amount",
     "BUYBACK NOMINAL AMOUNT", "earnings", "Earnings", "EARNINGS",
     "ordinary shares", "Ordinary Shares", "ORDINARY SHARES"}

\* C6 as stated: the underscore spelling and the space spelling of every name
\* of the rule table, in any letter case, select the name's rule, and every
\* other name selects the Default rule.
C6_SpaceAndUnderscoreAlike ==
    f_done =>
        Rule(f_out) = IF f_args.column \in C6_ClaimedCurrency THEN "currency"
                      ELSE IF f_args.column \in C6_ClaimedPercentage THEN "percentage"
                      ELSE IF f_args.column \in C6_ClaimedMillions THEN "millions"
                      ELSE "default"

\* C6 amended: format_value ignores letter case but not the difference of
\* space and underscore: a name selects a rule exactly when, lower-cased, it
\* is one of the spellings that rule's list holds, and selects the Default
\* rule otherwise.
C6_ListedSpellingsOnly ==
    f_done =>
        Rule(f_out) = IF f_args.column \in C6_ListedCurrency THEN "currency"
                      ELSE IF f_args.column \in C6_ListedPercentage THEN "percentage"
                      ELSE IF f_args.column \in C6_ListedMillions THEN "millions"
                      ELSE "default"

\* C6 witness: a listed spelling in title case has selected its rule, as
\* display_metrics_as_formated_list asks for it.
C6_Witness ==
    /\ f_done
    /\ f_args.column = "Cash Dividend Yield"
    /\ NumEq(f_args.value, FromRatio(TRUE, -5, 2))
    /\ Rule(f_out) = "percentage"
    /\ f_out.neg /\ f_out.digits = 25000

(***************************************************************************)
(* Properties of the two display functions (AggSpec)                       *)
(***************************************************************************)
\* Both functions have been called and both have returned a mapping.
BothReturned == a_step = "done" /\ a_formatted.exc = "none" /\ a_raw.exc = "none"

\* What calculations returns for the row and the parameters of the calls.
Computed ==
    Calculate(CallOf(a_args.asset_data, a_args.base_fees, a_args.preferential_shares, a_args.inflation_factor)).ret

\* The metrics the display functions take over from calculations.
SevenMetrics ==
    {"Cash Dividend", "Cash Dividend Yield", "Preferential Shares Staker",
     "Scrip Dividend", "Scrip Dividend Yield", "Ordinary Shares Staker",
     "Participant Dilution"}

\* The metrics calculations returns besides.
OtherMetrics == {"Buyback Nominal Amount", "Ordinary Shares", "Buyback Yield"}

\* C4: the mappings the two display functions return for a row have the
\* same key set, and under every key but 'Asset' the formatted mapping holds
\* format_value of the raw mapping's value.
C4_FormattedIsFormatOfRaw ==
    BothReturned =>
        /\ KeySet(a_formatted.ret) = KeySet(a_raw.ret)
        /\ \A k \in KeySet(a_raw.ret) \ {"Asset"} :
              DictGet(a_formatted.ret, k) = format_value(DictGet(a_raw.ret, k), k)

\* C4 witness: both mappings returned for a row with a column of its own and
\* a column named as a computed metric, at a zero price.
C4_Witness ==
    /\ BothReturned
    /\ "volume" \in KeySet(a_raw.ret)
    /\ "Cash Dividend" \in Range(a_args.asset_data.columns)
    /\ IsZero(a_args.asset_data.rows[1].cells["price"].num)
    /\ DictGet(a_formatted.ret, "Cash Dividend Yield").special = "inf"

\* C5 as stated: both mappings hold all ten metrics of calculations.
C5_AllTenMetrics ==
    BothReturned =>
        /\ SevenMetrics \cup OtherMetrics \subseteq KeySet(a_formatted.ret)
        /\ SevenMetrics \cup OtherMetrics \subseteq KeySet(a_raw.ret)

\* C5 amended: both mappings hold seven of the ten metrics of calculations
\* (Cash Dividend, Cash Dividend Yield, Preferential Shares Staker, Scrip
\* Dividend, Scrip Dividend Yield, Ordinary Shares Staker, Participant
\* Dilution), as calculations returns them or as format_value renders them;
\* Buyback Nominal Amount, Ordinary Shares and Buyback Yield are computed
\* but are no key of either mapping unless the row has a column of that name.
C5_SevenOfTenMetrics ==
    BothReturned =>
        /\ \A k \in SevenMetrics :
              /\ HasKey(a_raw.ret, k) /\ HasKey(a_formatted.ret, k)
              /\ DictGet(a_raw.ret, k) = DictGet(Computed, k)
              /\ DictGet(a_formatted.ret, k) = format_value(DictGet(Computed, k), k)
        /\ OtherMetrics \subseteq KeySet(Computed)
        /\ \A k \in OtherMetrics \ Range(a_args.asset_data.columns) :
              ~HasKey(a_raw.ret, k) /\ ~HasKey(a_formatted.ret, k)

\* C5 witness: both mappings returned, with Participant Dilution and without
\* Buyback Yield.
C5_Witness ==
    /\ BothReturned
    /\ HasKey(a_raw.ret, "Participant Dilution")
    /\ HasKey(a_formatted.ret, "Participant Dilution")
    /\ ~HasKey(a_raw.ret, "Buyback Yield")
    /\ DictGet(Computed, "Buyback Yield").k = "fin"

\* The columns of the row after the name column.
InputColumns == Range(NumericColumns(a_args.asset_data))

\* The value of the first row under a column.
InputValue(c) == a_args.asset_data.rows[1].cells[c].num

\* Neither call has changed the frame it was given.
FrameUnchanged ==
    /\ a_step \in {"formatted", "done"} => a_formatted.frame = a_args.asset_data
    /\ a_step = "done" => a_raw.frame = a_args.asset_data

\* 'Market Cap' is a key of neither mapping.
NoMarketCap ==
    /\ (a_step \in {"formatted", "done"} /\ a_formatted.exc = "none")
          => ~HasKey(a_formatted.ret, "Market Cap")
    /\ (a_step = "done" /\ a_raw.exc = "none") => ~HasKey(a_raw.ret, "Market Cap")

\* C9 as stated: the raw mapping holds every input column but 'Market Cap'
\* under its name with the input's value, 'Market Cap' is a key of neither
\* mapping, and the input row is unchanged.
C9_EveryColumnCarried ==
    /\ (a_step = "done" /\ a_raw.exc = "none") =>
          \A c \in InputColumns \ {"Market Cap"} :
              HasKey(a_raw.ret, c) /\ DictGet(a_raw.ret, c) = InputValue(c)
    /\ NoMarketCap
    /\ FrameUnchanged

\* C9 amended: the raw mapping holds every input column but 'Market Cap'
\* under its name; the value is the input's value unless the column is named
\* as one of the seven metrics the function adds, whose computed value then
\* replaces it; 'Market Cap' is a key of neither mapping, and the input row
\* is unchanged.
C9_ColumnsCarriedUnlessComputed ==
    /\ (a_step = "done" /\ a_raw.exc = "none") =>
          /\ \A c \in InputColumns \ ({"Market Cap"} \cup SevenMetrics) :
                HasKey(a_raw.ret, c) /\ DictGet(a_raw.ret, c) = InputValue(c)
          /\ \A c \in InputColumns \cap SevenMetrics :
                HasKey(a_raw.ret, c) /\ DictGet(a_raw.ret, c) = DictGet(Computed, c)
    /\ NoMarketCap
    /\ FrameUnchanged

\* C9 witness: the raw mapping returned for a row with a 'Market Cap'
\* column, a column of its own and a column named as a computed metric.
C9_Witness ==
    /\ a_step = "done" /\ a_raw.exc = "none"
    /\ {"Market Cap", "volume", "Cash Dividend"} \subseteq InputColumns
    /\ DictGet(a_raw.ret, "volume") = InputValue("volume")
    /\ DictGet(a_raw.ret, "Cash Dividend") # InputValue("Cash Dividend")

(***************************************************************************)
(* Properties of get_assets_data (Spec)                                    *)
(***************************************************************************)
\* C2: a table in which some asset's row has an unparseable field never
\* aborts the run: that asset alone is skipped and the run completes.
C2_ParseFailureNeverAborts == clean_raises(df_price) => pc # "error"

\* C3 as stated: calculations is invoked exactly once per asset processed,
\* not once per output mode.
C3_OneCallPerAsset ==
    pc \in {"loop", "done"} => Len(calls) = Len(all_assets_data_plots)

\* C3 amended: for each asset processed, calculations is invoked twice, once
\* by each output mode's function, both times with the same arguments.
C3_OneCallPerMode ==
    /\ pc \in {"loop", "done"} =>
          /\ Len(calls) = 2 * Len(all_assets_data_plots)
          /\ \A i \in DOMAIN all_assets_data_plots : calls[2 * i - 1] = calls[2 * i]
    /\ pc = "formatted" => Len(calls) = 2 * Len(all_assets_data_plots) + 1

\* C3 witness: the run has completed with two assets processed and four
\* calls made.
C3_Witness ==
    /\ pc = "done"
    /\ Len(all_assets_data_plots) = 2
    /\ Len(calls) = 4

\* The 'Asset' entries of a list of mappings.
AssetsOf(dicts) == [i \in DOMAIN dicts |-> DictGet(dicts[i], "Asset")]

\* The index of the first row bearing the name.
FirstIndex(name) ==
    CHOOSE i \in DOMAIN df_price.rows :
        /\ df_price.rows[i].name = name
        /\ \A j \in 1..(i - 1) : df_price.rows[j].name # name

\* The first row of the table bearing the name, as a frame of its own.
FirstRow(name) == Frame(df_price.columns, <<df_price.rows[FirstIndex(name)]>>)

\* The loop has visited every asset.
LoopEnded == (pc = "loop" /\ todo = <<>>) \/ pc = "done"

\* The names are each distinct name of the table, once, in the order of
\* their first rows.
EachNameOnce(names, expected) ==
    /\ Range(names) = expected
    /\ \A i, j \in DOMAIN names :
          i < j => FirstIndex(names[i]) < FirstIndex(names[j])

\* Each entry of the two lists is what the display functions make of the
\* first row bearing its name.
FromFirstRows ==
    /\ \A i \in DOMAIN all_assets_data :
          all_assets_data[i] =
              display_metrics_as_formated_list(FirstRow(AssetsOf(all_assets_data)[i]), RunBaseFees, RunPreferentialShares, RunInflationFactor).ret
    /\ \A i \in DOMAIN all_assets_data_plots :
          all_assets_data_plots[i] =
              display_metrics_as_list(FirstRow(AssetsOf(all_assets_data_plots)[i]), RunBaseFees, RunPreferentialShares, RunInflationFactor).ret

\* C10 as stated: at every point of the loop the two lists have the same
\* length and the same 'Asset' names index by index; when the loop ends each
\* distinct asset name of the table has exactly one entry in each list, in
\* first-occurrence order, made from the first row bearing the name.
C10_ListsAlignedAtEveryPoint ==
    /\ pc \in {"loop", "formatted"} =>
          AssetsOf(all_assets_data) = AssetsOf(all_assets_data_plots)
    /\ LoopEnded =>
          /\ EachNameOnce(AssetsOf(all_assets_data_plots), Range(AssetNames(df_price)))
          /\ FromFirstRows

\* C10 amended: whenever an iteration of the loop starts or ends the two
\* lists have the same length and the same 'Asset' names index by index;
\* between the two appends of an iteration the formatted list is one entry
\* ahead; when the loop ends each distinct asset name of the table that is
\* not missing has exactly one entry in each list, in first-occurrence
\* order, made from the first row bearing the name, and a missing name has
\* none.
C10_ListsAlignedBetweenIterations ==
    /\ pc \in {"loop", "done"} =>
          AssetsOf(all_assets_data) = AssetsOf(all_assets_data_plots)
    /\ pc = "formatted" =>
          AssetsOf(all_assets_data) = Append(AssetsOf(all_assets_data_plots), todo[1])
    /\ LoopEnded =>
          /\ EachNameOnce(AssetsOf(all_assets_data_plots), Range(AssetNames(df_price)) \ {NoName})
          /\ FromFirstRows

\* C10 witness: the loop has ended on a table whose two rows bear one name
\* and differ in price, with one entry in each list.
C10_Witness ==
    /\ LoopEnded
    /\ Len(df_price.rows) = 2
    /\ df_price.rows[1].name = df_price.rows[2].name
    /\ df_price.rows[1].cells["price"] # df_price.rows[2].cells["price"]
    /\ Len(all_assets_data) = 1 /\ Len(all_assets_data_plots) = 1

====
